---- MODULE Spec2Model ----
(***************************************************************************)
(* A model of the form declarations of social_insecurity/forms.py and of   *)
(* the validation pass the declared validators perform on a submission.    *)
(*                                                                         *)
(* A text is a sequence of one-character strings.  A text field holds      *)
(* [isNone, s]: isNone when the field was not part of the submission       *)
(* (Python None), otherwise the submitted text s.  A file field holds      *)
(* [isNone, filename, size].  A date field holds [isNone, y, m, d].        *)
(***************************************************************************)
EXTENDS Integers, Sequences, FiniteSets, TLC

VARIABLES form, phase, raw_data, data, process_errors, errors

vars == <<form, phase, raw_data, data, process_errors, errors>>

---------------------------------------------------------------------------
(* Characters and the Python string operations the validators use.         *)

LowerCase == <<"a","b","c","d","e","f","g","h","i","j","k","l","m",
               "n","o","p","q","r","s","t","u","v","w","x","y","z">>

UpperCase == <<"A","B","C","D","E","F","G","H","I","J","K","L","M",
               "N","O","P","Q","R","S","T","U","V","W","X","Y","Z">>

DigitChars == <<"0","1","2","3","4","5","6","7","8","9">>

Range(f) == {f[i] : i \in DOMAIN f}

Letters == Range(LowerCase) \cup Range(UpperCase)

Digits == Range(DigitChars)

\* str.strip() with no argument removes these from both ends.
Whitespace == {" ", "\t", "\n", "\r"}

\* str.lower(), one character.
LowerChar(c) ==
    IF c \in Range(UpperCase)
    THEN LowerCase[CHOOSE i \in DOMAIN UpperCase : UpperCase[i] = c]
    ELSE c

Lower(s) == [i \in DOMAIN s |-> LowerChar(s[i])]

\* str.strip(): the text without its leading and trailing whitespace.
Strip(s) ==
    IF \A i \in DOMAIN s : s[i] \in Whitespace
    THEN << >>
    ELSE LET first == CHOOSE i \in DOMAIN s :
                         /\ s[i] \notin Whitespace
                         /\ \A j \in 1..(i-1) : s[j] \in Whitespace
             last  == CHOOSE i \in DOMAIN s :
                         /\ s[i] \notin Whitespace
                         /\ \A j \in (i+1)..Len(s) : s[j] \in Whitespace
         IN  SubSeq(s, first, last)

\* str.endswith(suffix).
EndsWith(s, suffix) ==
    /\ Len(suffix) <= Len(s)
    /\ SubSeq(s, Len(s) - Len(suffix) + 1, Len(s)) = suffix

None == [isNone |-> TRUE, s |-> << >>]

Str(s) == [isNone |-> FALSE, s |-> s]

\* Truthiness of a text field's data: None and "" are falsy.
Truthy(d) == ~d.isNone /\ Len(d.s) > 0

---------------------------------------------------------------------------
(* Configuration constants for limits.                                     *)

max_post_length == 280

max_comment_length == 150

max_username_length == 25

min_username_length == 8

max_password_length == 20

min_password_length == 8

max_file_size == 5 * 1024 * 1024

allowed_extensions == {<<"p","n","g">>, <<"j","p","g">>, <<"j","p","e","g">>}

---------------------------------------------------------------------------
(* Validators.  A validator is a record; Call runs it on a field and       *)
(* yields what it raises: nothing, ValidationError(message) or             *)
(* StopValidation(message).  clear: the validator emptied field.errors     *)
(* before raising.                                                         *)

Passed == [raised |-> "none", message |-> "", clear |-> FALSE]

ValidationError(message) ==
    [raised |-> "ValidationError", message |-> message, clear |-> FALSE]

StopValidation(message, clear) ==
    [raised |-> "StopValidation", message |-> message, clear |-> clear]

Validator(kind, min, max, chars, fieldname, message) ==
    [kind |-> kind, min |-> min, max |-> max, chars |-> chars,
     fieldname |-> fieldname, message |-> message]

DataRequired(message) == Validator("DataRequired", 0, 0, {}, "", message)

Length(min, max, message) == Validator("Length", min, max, {}, "", message)

\* Regexp(r'^[chars]+$'): the pattern is given by its character class.
Regexp(chars, message) == Validator("Regexp", 0, 0, chars, "", message)

EqualTo(fieldname, message) == Validator("EqualTo", 0, 0, {}, fieldname, message)

FileAllowed(upload_set, message) ==
    Validator("FileAllowed", 0, 0, upload_set, "", message)

FileSize(max_size, message) == Validator("FileSize", 0, max_size, {}, "", message)

NotEmptyValidator == Validator("validate_not_empty", 0, 0, {}, "", "")

\* Truthiness alone, whitespace accepted.
DataRequiredCallTruthy(v, field) ==
    IF Truthy(field) THEN Passed ELSE StopValidation(v.message, TRUE)

\* DataRequired.__call__: the data must be truthy and, when a string, must
\* not be whitespace only; otherwise the errors so far are dropped and the
\* chain is stopped.
DataRequiredCall(v, field) ==
    IF Truthy(field) /\ Len(Strip(field.s)) > 0
    THEN Passed
    ELSE StopValidation(v.message, TRUE)

\* The length taken after stripping.
LengthCallStripped(v, field) ==
    LET length == IF Truthy(field) THEN Len(Strip(field.s)) ELSE 0
    IN  IF length >= v.min /\ (v.max = -1 \/ length <= v.max)
        THEN Passed
        ELSE ValidationError(v.message)

\* Length.__call__: length = field.data and len(field.data) or 0.
LengthCall(v, field) ==
    LET length == IF Truthy(field) THEN Len(field.s) ELSE 0
    IN  IF length >= v.min /\ (v.max = -1 \/ length <= v.max)
        THEN Passed
        ELSE ValidationError(v.message)

\* re.match(r'^[chars]+$', text): one or more characters of the class from
\* the start, then $, which matches at the end of the text and also just
\* before a newline that ends the text.
ReMatch(chars, text) ==
    \/ /\ Len(text) >= 1
       /\ \A i \in DOMAIN text : text[i] \in chars
    \/ /\ Len(text) >= 2
       /\ text[Len(text)] = "\n"
       /\ \A i \in 1..(Len(text) - 1) : text[i] \in chars

\* Regexp.__call__: self.regex.match(field.data or "").
RegexpCall(v, field) ==
    IF ReMatch(v.chars, IF Truthy(field) THEN field.s ELSE << >>)
    THEN Passed
    ELSE ValidationError(v.message)

\* EqualTo.__call__: field.data == form[fieldname].data.
EqualToCall(v, formdata, field) ==
    IF v.fieldname \notin DOMAIN formdata
    THEN ValidationError("Invalid field name.")
    ELSE IF field = formdata[v.fieldname]
         THEN Passed
         ELSE ValidationError(v.message)

\* The filename compared as it was written.
FileAllowedCallCaseSensitive(v, field) ==
    IF field.isNone
    THEN Passed
    ELSE IF \E x \in v.chars : EndsWith(field.filename, <<".">> \o x)
         THEN Passed
         ELSE StopValidation(v.message, FALSE)

\* FileAllowed.__call__: nothing to check without a file; else the
\* lower-cased filename must end with "." + x for an x of the upload set.
FileAllowedCall(v, field) ==
    IF field.isNone
    THEN Passed
    ELSE IF \E x \in v.chars : EndsWith(Lower(field.filename), <<".">> \o x)
         THEN Passed
         ELSE StopValidation(v.message, FALSE)

\* FileSize.__call__: nothing to check without a file; else the size must
\* lie in [min_size, max_size].
FileSizeCall(v, field) ==
    IF field.isNone
    THEN Passed
    ELSE IF field.size < v.min \/ field.size > v.max
         THEN ValidationError(v.message)
         ELSE Passed

validate_not_empty(formdata, field) ==
    IF ~Truthy(field) \/ Len(Strip(field.s)) = 0
    THEN ValidationError("This field cannot be empty or contain only whitespace")
    ELSE Passed

Call(v, formdata, field) ==
    CASE v.kind = "DataRequired"       -> DataRequiredCall(v, field)
      [] v.kind = "Length"             -> LengthCall(v, field)
      [] v.kind = "Regexp"             -> RegexpCall(v, field)
      [] v.kind = "EqualTo"            -> EqualToCall(v, formdata, field)
      [] v.kind = "FileAllowed"        -> FileAllowedCall(v, field)
      [] v.kind = "FileSize"           -> FileSizeCall(v, field)
      [] v.kind = "validate_not_empty" -> validate_not_empty(formdata, field)

\* The chain ended by the first validator that raises.
RunValidationChainFirstOnly(validators, formdata, field, errs) ==
    LET bad == {i \in DOMAIN validators :
                   Call(validators[i], formdata, field).raised # "none"}
    IN  IF bad = {}
        THEN errs
        ELSE LET k == CHOOSE i \in bad : \A j \in bad : i <= j
                 r == Call(validators[k], formdata, field)
             IN  Append(IF r.clear THEN << >> ELSE errs, r.message)

\* Field._run_validation_chain: the validators run in order; a
\* ValidationError appends its message and the chain goes on; a
\* StopValidation appends its message (when it has one) and ends the chain.
RECURSIVE RunValidationChain(_, _, _, _)
RunValidationChain(validators, formdata, field, errs) ==
    IF validators = << >>
    THEN errs
    ELSE LET r    == Call(Head(validators), formdata, field)
             kept == IF r.clear THEN << >> ELSE errs
         IN  CASE r.raised = "none" ->
                    RunValidationChain(Tail(validators), formdata, field, errs)
               [] r.raised = "ValidationError" ->
                    RunValidationChain(Tail(validators), formdata, field,
                                       Append(errs, r.message))
               [] r.raised = "StopValidation" ->
                    IF r.message = "" THEN kept ELSE Append(kept, r.message)

\* Field.validate: the errors start as the processing errors, then the
\* chain runs (pre_validate and post_validate do nothing for these fields).
FieldValidate(validators, formdata, field, perrs) ==
    RunValidationChain(validators, formdata, field, perrs)

---------------------------------------------------------------------------
(* The forms: each field's validators, in declaration order.  The fields   *)
(* declared without validators (remember_me, submit) never get an error    *)
(* and are left out of the state.                                          *)

RequiredMessage == "This field is required."

UsernameChars == Letters \cup Digits \cup {"_"}

NameChars == Letters \cup {"-"}

UsernameMessage == "Username must contain only letters, numbers, and underscores."

LoginForm_username ==
    << DataRequired(RequiredMessage),
       Length(3, 30, "Field must be between 3 and 30 characters long."),
       Regexp(UsernameChars, UsernameMessage) >>

LoginForm_password ==
    << DataRequired(RequiredMessage),
       Length(6, 128, "Field must be between 6 and 128 characters long.") >>

RegisterForm_first_name ==
    << DataRequired(RequiredMessage),
       Length(1, 50, "Field must be between 1 and 50 characters long."),
       Regexp(NameChars, "First name must contain only letters and hyphens.") >>

RegisterForm_last_name ==
    << DataRequired(RequiredMessage),
       Length(1, 50, "Field must be between 1 and 50 characters long."),
       Regexp(NameChars, "Last name must contain only letters and hyphens.") >>

RegisterForm_username ==
    << DataRequired(RequiredMessage),
       Length(3, 30, "Field must be between 3 and 30 characters long."),
       Regexp(UsernameChars, UsernameMessage) >>

RegisterForm_password ==
    << DataRequired(RequiredMessage),
       Length(6, 128, "Field must be between 6 and 128 characters long.") >>

\* The confirmation without its comparison.
RegisterForm_confirm_password_unchecked == << DataRequired(RequiredMessage) >>

RegisterForm_confirm_password ==
    << DataRequired(RequiredMessage),
       EqualTo("password", "Passwords must match.") >>

\* The comment limit taken for the post limit.
PostForm_content_comment_limit ==
    << DataRequired("Post content cannot be empty"),
       NotEmptyValidator,
       Length(1, max_comment_length, "Post must be between 1 and 280 characters") >>

PostForm_content ==
    << DataRequired("Post content cannot be empty"),
       NotEmptyValidator,
       Length(1, max_post_length, "Post must be between 1 and 280 characters") >>

\* The text of FileAllowed's message joins a Python set, whose iteration
\* order is not fixed: any order of the three extensions can be built.
FileAllowedMessages ==
    { "Only png, jpg, jpeg files are allowed", "Only png, jpeg, jpg files are allowed",
      "Only jpg, png, jpeg files are allowed", "Only jpg, jpeg, png files are allowed",
      "Only jpeg, png, jpg files are allowed", "Only jpeg, jpg, png files are allowed" }

\* The messages a form's validators may have been built with.
MessagesOf(f) ==
    IF f = "PostForm" THEN FileAllowedMessages
    ELSE {"Only png, jpg, jpeg files are allowed"}

FileSizeMessage == "File size must be less than 5MB"

\* The size bound taken as exclusive.
PostForm_image_exclusive(allowedMessage) ==
    << FileAllowed(allowed_extensions, allowedMessage),
       FileSize(max_file_size - 1, FileSizeMessage) >>

PostForm_image(allowedMessage) ==
    << FileAllowed(allowed_extensions, allowedMessage),
       FileSize(max_file_size, FileSizeMessage) >>

CommentsForm_comment ==
    << DataRequired(RequiredMessage),
       NotEmptyValidator,
       Length(1, max_comment_length, "Field must be between 1 and 150 characters long.") >>

FriendsForm_username == << >>

ProfileForm_education == << >>

ProfileForm_employment == << >>

ProfileForm_music == << >>

ProfileForm_movie == << >>

\* A required field.
ProfileForm_nationality_required == << DataRequired(RequiredMessage) >>

ProfileForm_nationality == << >>

ProfileForm_birthday == << >>

ProfileTextFields == {"education", "employment", "music", "movie", "nationality"}

Forms == {"LoginForm", "RegisterForm", "PostForm", "CommentsForm",
          "FriendsForm", "ProfileForm"}

Fields(f) ==
    CASE f = "LoginForm"    -> {"username", "password"}
      [] f = "RegisterForm" -> {"first_name", "last_name", "username",
                                "password", "confirm_password"}
      [] f = "PostForm"     -> {"content", "image"}
      [] f = "CommentsForm" -> {"comment"}
      [] f = "FriendsForm"  -> {"username"}
      [] f = "ProfileForm"  -> ProfileTextFields \cup {"birthday"}

Validators(f, name, allowedMessage) ==
    CASE f = "LoginForm" /\ name = "username"            -> LoginForm_username
      [] f = "LoginForm" /\ name = "password"            -> LoginForm_password
      [] f = "RegisterForm" /\ name = "first_name"       -> RegisterForm_first_name
      [] f = "RegisterForm" /\ name = "last_name"        -> RegisterForm_last_name
      [] f = "RegisterForm" /\ name = "username"         -> RegisterForm_username
      [] f = "RegisterForm" /\ name = "password"         -> RegisterForm_password
      [] f = "RegisterForm" /\ name = "confirm_password" -> RegisterForm_confirm_password
      [] f = "PostForm" /\ name = "content"              -> PostForm_content
      [] f = "PostForm" /\ name = "image"                -> PostForm_image(allowedMessage)
      [] f = "CommentsForm" /\ name = "comment"          -> CommentsForm_comment
      [] f = "FriendsForm" /\ name = "username"          -> FriendsForm_username
      [] f = "ProfileForm" /\ name = "education"         -> ProfileForm_education
      [] f = "ProfileForm" /\ name = "employment"        -> ProfileForm_employment
      [] f = "ProfileForm" /\ name = "music"             -> ProfileForm_music
      [] f = "ProfileForm" /\ name = "movie"             -> ProfileForm_movie
      [] f = "ProfileForm" /\ name = "nationality"       -> ProfileForm_nationality
      [] f = "ProfileForm" /\ name = "birthday"          -> ProfileForm_birthday

---------------------------------------------------------------------------
(* Processing of the submitted values into field data.                     *)

\* StringField / PasswordField / TextAreaField.process_formdata: the
\* submitted text as it is, None when the field was not submitted.
ProcessText(raw) == raw

NoFile == [isNone |-> TRUE, filename |-> << >>, size |-> 0]

File(filename, size) == [isNone |-> FALSE, filename |-> filename, size |-> size]

\* FileField.process_formdata: the first upload that is truthy, that is
\* whose filename is not empty; None when there is none.
ProcessFile(raw) ==
    IF raw.isNone \/ Len(raw.filename) = 0 THEN NoFile ELSE raw

DigitVal(c) == (CHOOSE i \in DOMAIN DigitChars : DigitChars[i] = c) - 1

IsDigits(s) == \A i \in DOMAIN s : s[i] \in Digits

RECURSIVE Num(_)
Num(s) == IF s = << >> THEN 0
          ELSE 10 * Num(SubSeq(s, 1, Len(s) - 1)) + DigitVal(s[Len(s)])

IsLeap(y) == (y % 4 = 0) /\ ((y % 100 # 0) \/ (y % 400 = 0))

DaysInMonth(y, m) ==
    IF m = 2 THEN (IF IsLeap(y) THEN 29 ELSE 28)
    ELSE IF m \in {4, 6, 9, 11} THEN 30 ELSE 31

NoDate == [kind |-> "None", y |-> 0, m |-> 0, d |-> 0]

\* default=datetime.now(), taken once when the module is loaded.
DefaultDate == [kind |-> "default", y |-> 0, m |-> 0, d |-> 0]

\* datetime.strptime(text, "%Y-%m-%d").date(): four digits, "-", a month
\* 1..12 of one or two digits, "-", a day 1..31 of one or two digits (or a
\* blank and one digit), nothing after it, and a date of the calendar.
StrpDate(text) ==
    IF \E k \in {7, 8} :
          /\ Len(text) > k
          /\ IsDigits(SubSeq(text, 1, 4))
          /\ text[5] = "-"
          /\ text[k] = "-"
          /\ IsDigits(SubSeq(text, 6, k - 1))
          /\ Num(SubSeq(text, 6, k - 1)) \in 1..12
          /\ LET day == SubSeq(text, k + 1, Len(text))
             IN  /\ \/ Len(day) \in {1, 2} /\ IsDigits(day) /\ Num(day) \in 1..31
                    \/ Len(day) = 2 /\ day[1] = " " /\ day[2] \in Digits \ {"0"}
                 /\ Num(SubSeq(text, 1, 4)) >= 1
                 /\ Num(IF day[1] = " " THEN <<day[2]>> ELSE day)
                       <= DaysInMonth(Num(SubSeq(text, 1, 4)), Num(SubSeq(text, 6, k - 1)))
    THEN LET k   == CHOOSE k \in {7, 8} : text[k] = "-"
             day == SubSeq(text, k + 1, Len(text))
         IN  [kind |-> "date", y |-> Num(SubSeq(text, 1, 4)),
              m |-> Num(SubSeq(text, 6, k - 1)),
              d |-> Num(IF day[1] = " " THEN <<day[2]>> ELSE day)]
    ELSE NoDate

\* DateField.process_formdata: nothing submitted leaves the default; else
\* the text is parsed, and a text that is no date leaves None and the
\* processing error.
ProcessDate(raw) ==
    IF raw.isNone THEN DefaultDate ELSE StrpDate(raw.s)

ProcessDateErrors(raw) ==
    IF ~raw.isNone /\ StrpDate(raw.s).kind = "None"
    THEN << "Not a valid date value." >>
    ELSE << >>

---------------------------------------------------------------------------
(* The submissions explored.                                               *)

\* Every text of at most MaxLen characters over ShortChars is submitted.
MaxLen == 2

ShortChars == {"a", "Z", "7", "_", "-", " ", "\n", "!"}

ShortTexts == UNION {[1..k -> ShortChars] : k \in 0..MaxLen}

Rep(c, n) == [i \in 1..n |-> c]

\* The limits the forms declare or configure; texts around each of them.
Limits == {1, 3, 6, min_username_length, max_username_length, 30, 50, 128,
           max_comment_length, max_post_length}

PadLens == UNION {{l - 1, l, l + 1} : l \in Limits}

Prefixes == {<< >>, <<" ">>, <<"-">>}

Suffixes == {<< >>} \cup {<<c>> : c \in ShortChars}

LongTexts == {pre \o Rep("a", n) \o suf :
                 pre \in Prefixes, n \in PadLens, suf \in Suffixes}

Abc123 == <<"a", "b", "c", "1", "2", "3">>

Abc124 == <<"a", "b", "c", "1", "2", "4">>

OtherInputs == {None, Str(Abc123)}

PasswordInputs ==
    OtherInputs \cup {Str(Rep("a", n)) : n \in {0, 5, 6, 128, 129}} \cup {Str(<<" ">>)}

Stems == {<< >>, <<"p","h","o","t","o">>, <<"a",".","b">>}

Exts == { << >>, <<".","p","n","g">>, <<".","P","N","G">>, <<".","j","p","g">>,
          <<".","J","P","G">>, <<".","j","p","e","g">>, <<".","J","p","E","g">>,
          <<".","g","i","f">>, <<".","G","I","F">>, <<"p","n","g">>,
          <<"_","j","p","g">>, <<".","j","p","g",".","e","x","e">>,
          <<".","j","p">>, <<".","j","p","g"," ">> }

FileNames == {stem \o ext : stem \in Stems, ext \in Exts}

FileSizes == {0, 1, max_file_size - 1, max_file_size, max_file_size + 1,
              2 * max_file_size}

FileInputs == {NoFile} \cup {File(n, z) : n \in FileNames, z \in FileSizes}

PhotoJpg == <<"p","h","o","t","o",".","j","p","g">>

OtherFileInputs == {NoFile, File(PhotoJpg, 1), File(<<"a",".","b">>, 2 * max_file_size)}

Hello == <<"h", "e", "l", "l", "o">>

Texts == ShortTexts \cup LongTexts \cup {Abc123, Abc124, Hello}

TextInputs == {None} \cup {Str(s) : s \in Texts}

OtherContentInputs == {None, Str(Hello), Str(<<" ">>)}

Dash == <<"-">>

YearTexts == {<<"2","0","2","4">>, <<"2","0","2","3">>, <<"1","9","0","0">>,
              <<"2","0","0","0">>, <<"0","0","0","0">>, <<"2","4">>}

MonthTexts == {<<"0","2">>, <<"2">>, <<"1","2">>, <<"1","3">>, <<"0","0">>,
               <<"4">>, << >>}

DayTexts == {<<"2","8">>, <<"2","9">>, <<"3","0">>, <<"3","1">>, <<"3","2">>,
             <<"1">>, <<"0","1">>, <<"0","0">>, <<" ","1">>, <<"x">>}

DateTails == {<< >>, <<"\n">>}

DateTexts == {y \o Dash \o m \o Dash \o d \o e :
                 y \in YearTexts, m \in MonthTexts, d \in DayTexts, e \in DateTails}

OtherDateInputs == {None, Str(<<"2","0","2","4","-","0","2","-","2","9">>), Str(Abc123)}

DateInputs ==
    OtherDateInputs \cup {None} \cup {Str(s) : s \in DateTexts \cup ShortTexts}

NoErrors(f) == [name \in Fields(f) |-> << >>]

---------------------------------------------------------------------------
(* The state machine: a form is built from a submission (its values are    *)
(* processed into field data), validated, read and discarded.              *)

Init ==
    /\ form = "none"
    /\ phase = "idle"
    /\ raw_data = << >>
    /\ data = << >>
    /\ process_errors = << >>
    /\ errors = << >>

SubmitLoginForm ==
    /\ phase = "idle"
    /\ \E u \in TextInputs, p \in PasswordInputs :
          /\ raw_data' = [username |-> u, password |-> p]
          /\ data' = [username |-> ProcessText(u), password |-> ProcessText(p)]
    /\ form' = "LoginForm"
    /\ phase' = "processed"
    /\ process_errors' = NoErrors("LoginForm")
    /\ errors' = NoErrors("LoginForm")

\* One field takes every text, the others a few; same: the password and
\* its confirmation are submitted with one value.
SubmitRegisterForm ==
    /\ phase = "idle"
    /\ \E focus \in Fields("RegisterForm"), v \in TextInputs, o \in OtherInputs,
          same \in BOOLEAN :
          LET raw == [name \in Fields("RegisterForm") |->
                         IF name = focus THEN v
                         ELSE IF same /\ {name, focus} = {"password", "confirm_password"}
                              THEN v
                              ELSE o]
          IN  /\ raw_data' = raw
              /\ data' = [name \in Fields("RegisterForm") |-> ProcessText(raw[name])]
    /\ form' = "RegisterForm"
    /\ phase' = "processed"
    /\ process_errors' = NoErrors("RegisterForm")
    /\ errors' = NoErrors("RegisterForm")

\* Every text with a few files, and every file with a few texts.
SubmitPostForm ==
    /\ phase = "idle"
    /\ \E c \in TextInputs \cup OtherContentInputs, i \in FileInputs :
          /\ c \in OtherContentInputs \/ i \in OtherFileInputs
          /\ raw_data' = [content |-> c, image |-> i]
          /\ data' = [content |-> ProcessText(c), image |-> ProcessFile(i)]
    /\ form' = "PostForm"
    /\ phase' = "processed"
    /\ process_errors' = NoErrors("PostForm")
    /\ errors' = NoErrors("PostForm")

SubmitCommentsForm ==
    /\ phase = "idle"
    /\ \E c \in TextInputs :
          /\ raw_data' = [comment |-> c]
          /\ data' = [comment |-> ProcessText(c)]
    /\ form' = "CommentsForm"
    /\ phase' = "processed"
    /\ process_errors' = NoErrors("CommentsForm")
    /\ errors' = NoErrors("CommentsForm")

SubmitFriendsForm ==
    /\ phase = "idle"
    /\ \E u \in TextInputs :
          /\ raw_data' = [username |-> u]
          /\ data' = [username |-> ProcessText(u)]
    /\ form' = "FriendsForm"
    /\ phase' = "processed"
    /\ process_errors' = NoErrors("FriendsForm")
    /\ errors' = NoErrors("FriendsForm")

\* One text field takes every text with a few birthdays, and the birthday
\* takes every date text with a few texts.
SubmitProfileForm ==
    /\ phase = "idle"
    /\ \E focus \in ProfileTextFields, v \in TextInputs, o \in OtherInputs,
          b \in DateInputs :
          /\ b \in OtherDateInputs \/ (v = o /\ focus = "education")
          /\ raw_data' = [name \in Fields("ProfileForm") |->
                         IF name = "birthday" THEN b
                         ELSE IF name = focus THEN v ELSE o]
          /\ data' = [name \in Fields("ProfileForm") |->
                         IF name = "birthday" THEN ProcessDate(b)
                         ELSE ProcessText(IF name = focus THEN v ELSE o)]
          /\ process_errors' = [name \in Fields("ProfileForm") |->
                         IF name = "birthday" THEN ProcessDateErrors(b) ELSE << >>]
    /\ form' = "ProfileForm"
    /\ phase' = "processed"
    /\ errors' = NoErrors("ProfileForm")

\* Form.validate: every field runs its own chain over the processed data.
Validate ==
    /\ phase = "processed"
    /\ \E allowedMessage \in MessagesOf(form) :
          errors' = [name \in Fields(form) |->
                        FieldValidate(Validators(form, name, allowedMessage),
                                      data, data[name], process_errors[name])]
    /\ phase' = "validated"
    /\ UNCHANGED <<form, raw_data, data, process_errors>>

Discard ==
    /\ phase = "validated"
    /\ form' = "none"
    /\ phase' = "idle"
    /\ raw_data' = << >>
    /\ data' = << >>
    /\ process_errors' = << >>
    /\ errors' = << >>

Next ==
    \/ SubmitLoginForm
    \/ SubmitRegisterForm
    \/ SubmitPostForm
    \/ SubmitCommentsForm
    \/ SubmitFriendsForm
    \/ SubmitProfileForm
    \/ Validate
    \/ Discard

Spec == Init /\ [][Next]_vars

---------------------------------------------------------------------------
Validated(f) == phase = "validated" /\ form = f

Has(errs, message) == \E i \in DOMAIN errs : errs[i] = message

NonBlank(s) == \E i \in DOMAIN s : s[i] \notin Whitespace

---------------------------------------------------------------------------
\* C1: validating PostForm.content with no image supplied: "" yields "Post
\* content cannot be empty"; 281 characters yield the length-range message;
\* "hello" yields no error on the form; every non-blank content of 1..280
\* characters is valid and every content of more than 280 characters is
\* invalid.
C1_PostContent ==
    (Validated("PostForm") /\ data.image.isNone /\ ~data.content.isNone) =>
        LET s == data.content.s
        IN  /\ s = << >> => Has(errors.content, "Post content cannot be empty")
            /\ s = Rep("a", 281) =>
                  Has(errors.content, "Post must be between 1 and 280 characters")
            /\ s = Hello => errors.content = << >> /\ errors.image = << >>
            /\ (NonBlank(s) /\ Len(s) \in 1..280) => errors.content = << >>
            /\ Len(s) > 280 => errors.content # << >>

C1_Witness ==
    /\ Validated("PostForm")
    /\ data.image.isNone
    /\ data.content = Str(Rep("a", 280))
    /\ errors.content = << >>

\* C2: in LoginForm and RegisterForm a username of exactly 8 allowed
\* characters passes the length rule and one of exactly 7 allowed characters
\* fails it.
C2_UsernameMinEight ==
    ((Validated("LoginForm") \/ Validated("RegisterForm"))
        /\ ~data.username.isNone
        /\ \A i \in DOMAIN data.username.s : data.username.s[i] \in UsernameChars) =>
        /\ Len(data.username.s) = min_username_length => errors.username = << >>
        /\ Len(data.username.s) = min_username_length - 1 => errors.username # << >>

HasExtension(filename) == \E i \in DOMAIN filename : filename[i] = "."

Extension(filename) ==
    LET dot == CHOOSE i \in DOMAIN filename :
                  /\ filename[i] = "."
                  /\ \A j \in (i+1)..Len(filename) : filename[j] # "."
    IN  SubSeq(filename, dot + 1, Len(filename))

\* C5: a supplied file violates the extension rule of PostForm.image iff
\* its extension, compared without regard to case, is none of png, jpg and
\* jpeg; "photo.JPG" is valid and "photo.GIF" is not; without a file the
\* image field has no error.
C5_FileExtension ==
    Validated("PostForm") =>
        LET rejected == \E m \in FileAllowedMessages : Has(errors.image, m)
            name     == data.image.filename
        IN  /\ data.image.isNone => errors.image = << >>
            /\ ~data.image.isNone =>
                  (rejected <=> ~(/\ HasExtension(name)
                                  /\ Lower(Extension(name)) \in
                                        {<<"p","n","g">>, <<"j","p","g">>, <<"j","p","e","g">>}))
            /\ (~data.image.isNone /\ name = <<"p","h","o","t","o",".","J","P","G">>) =>
                  ~rejected
            /\ (~data.image.isNone /\ name = <<"p","h","o","t","o",".","G","I","F">>) =>
                  rejected

C5_Witness ==
    /\ Validated("PostForm")
    /\ data.image = File(<<"p","h","o","t","o",".","J","P","G">>, 1)
    /\ errors.image = << >>

\* C3 as stated: in RegisterForm, for every non-empty confirm_password, the
\* field has no error when it equals password and exactly the one error
\* "Passwords must match." when it differs.
C3_ConfirmNonEmpty ==
    (Validated("RegisterForm") /\ ~data.confirm_password.isNone
        /\ Len(data.confirm_password.s) > 0) =>
        IF data.confirm_password = data.password
        THEN errors.confirm_password = << >>
        ELSE errors.confirm_password = << "Passwords must match." >>

\* C3 amended: the same for every confirm_password that holds a character
\* other than whitespace.
C3_ConfirmNonBlank ==
    (Validated("RegisterForm") /\ ~data.confirm_password.isNone
        /\ NonBlank(data.confirm_password.s)) =>
        IF data.confirm_password = data.password
        THEN errors.confirm_password = << >>
        ELSE errors.confirm_password = << "Passwords must match." >>

C3_Witness ==
    /\ Validated("RegisterForm")
    /\ data.password = Str(Abc123)
    /\ data.confirm_password = Str(Abc124)
    /\ errors.confirm_password = << "Passwords must match." >>

NotBlankMessage == "This field cannot be empty or contain only whitespace"

\* The text fields that declare the not-blank rule, with their Required
\* message.
NotBlankFields ==
    { [form |-> "PostForm", field |-> "content", required |-> "Post content cannot be empty"],
      [form |-> "CommentsForm", field |-> "comment", required |-> RequiredMessage] }

WhitespaceOnly(d) == ~d.isNone /\ Len(d.s) > 0 /\ ~NonBlank(d.s)

\* C6 as stated: on PostForm.content and CommentsForm.comment a present
\* value of whitespace only does not violate Required and gets the
\* not-blank message.
C6_WhitespaceNotBlank ==
    \A r \in NotBlankFields :
        (Validated(r.form) /\ WhitespaceOnly(data[r.field])) =>
            /\ ~Has(errors[r.field], r.required)
            /\ Has(errors[r.field], NotBlankMessage)

\* C6 amended: such a value violates Required, whose message is then the
\* field's only error; the not-blank message is reported for no value.
C6_WhitespaceRequired ==
    \A r \in NotBlankFields :
        Validated(r.form) =>
            /\ WhitespaceOnly(data[r.field]) => errors[r.field] = << r.required >>
            /\ ~Has(errors[r.field], NotBlankMessage)

C6_Witness ==
    /\ Validated("CommentsForm")
    /\ data.comment = Str(<<" ", "\n">>)
    /\ errors.comment = << RequiredMessage >>

DateMessage == "Not a valid date value."

\* C7 as stated: every field declared without validators has no error,
\* whatever was submitted.
C7_NoRulesNoErrors ==
    /\ Validated("FriendsForm") => errors.username = << >>
    /\ Validated("ProfileForm") =>
          \A name \in ProfileTextFields \cup {"birthday"} : errors[name] = << >>

\* C7 amended: the text fields declared without validators have no error,
\* whatever was submitted; birthday has no error when nothing was submitted
\* or the text is a date, and the one error "Not a valid date value."
\* otherwise.
C7_NoRulesTextFields ==
    /\ Validated("FriendsForm") => errors.username = << >>
    /\ Validated("ProfileForm") =>
          /\ \A name \in ProfileTextFields : errors[name] = << >>
          /\ IF raw_data.birthday.isNone \/ data.birthday.kind = "date"
             THEN errors.birthday = << >>
             ELSE errors.birthday = << DateMessage >>
          /\ raw_data.birthday = Str(<<"2","0","2","4","-","0","2","-","2","9">>) =>
                data.birthday = [kind |-> "date", y |-> 2024, m |-> 2, d |-> 29]
          /\ raw_data.birthday \in
                {Str(<<"2","0","2","3","-","0","2","-","2","9">>), Str(Abc123), Str(<< >>)} =>
                errors.birthday = << DateMessage >>

C7_Witness ==
    /\ Validated("ProfileForm")
    /\ raw_data.birthday = Str(Abc123)
    /\ errors.birthday = << DateMessage >>
    /\ raw_data.education = None
    /\ errors.education = << >>

\* The messages of the validators of vs that the field `name` violates, in
\* the order of vs.
ViolatedMessages(vs, name) ==
    LET sel == SelectSeq(vs, LAMBDA v : Call(v, data, data[name]).raised # "none")
    IN  [i \in DOMAIN sel |-> Call(sel[i], data, data[name]).message]

RequiredFails(vs, name) ==
    /\ vs # << >>
    /\ vs[1].kind = "DataRequired"
    /\ Call(vs[1], data, data[name]).raised # "none"

\* C8 as stated: each field's errors are the messages of all the rules it
\* violates, in declaration order; when Required fails they are the
\* Required message followed by the message of the not-blank rule, which
\* handles absence.
C8_AllViolationsReported ==
    phase = "validated" =>
        \E m \in MessagesOf(form) : \A name \in Fields(form) :
            LET vs == Validators(form, name, m)
            IN  errors[name] =
                   IF RequiredFails(vs, name)
                   THEN <<vs[1].message>> \o
                        ViolatedMessages(
                           SelectSeq(vs, LAMBDA v : v.kind = "validate_not_empty"), name)
                   ELSE process_errors[name] \o ViolatedMessages(vs, name)

\* The rules whose failure ends a field's chain.
Stoppers == {"DataRequired", "FileAllowed"}

\* C8 amended: each field's errors are the messages of the rules it
\* violates, in declaration order, up to and including the first violated
\* DataRequired or FileAllowed rule, which ends the chain; a violated
\* DataRequired leaves its message as the field's only error.  A LoginForm
\* username breaking both the length and the pattern rule gets the two
\* messages, length first.
C8_ChainOrder ==
    phase = "validated" =>
        /\ \E m \in MessagesOf(form) : \A name \in Fields(form) :
              LET vs    == Validators(form, name, m)
                  stops == {i \in DOMAIN vs :
                               /\ vs[i].kind \in Stoppers
                               /\ Call(vs[i], data, data[name]).raised # "none"}
              IN  errors[name] =
                     IF stops = {}
                     THEN process_errors[name] \o ViolatedMessages(vs, name)
                     ELSE LET k == CHOOSE i \in stops : \A j \in stops : i <= j
                          IN  IF vs[k].kind = "DataRequired"
                              THEN <<vs[k].message>>
                              ELSE process_errors[name]
                                      \o ViolatedMessages(SubSeq(vs, 1, k - 1), name)
                                      \o <<vs[k].message>>
        /\ (form = "LoginForm" /\ data.username = Str(<<"!">>)) =>
              errors.username =
                 << "Field must be between 3 and 30 characters long.", UsernameMessage >>

C8_Witness ==
    /\ Validated("LoginForm")
    /\ data.username = Str(<<"!">>)
    /\ errors.username =
          << "Field must be between 3 and 30 characters long.", UsernameMessage >>

\* The text fields that declare a length rule: its range and its message.
LengthRules ==
    { [form |-> "LoginForm", field |-> "username", min |-> 3, max |-> 30,
       message |-> "Field must be between 3 and 30 characters long."],
      [form |-> "LoginForm", field |-> "password", min |-> 6, max |-> 128,
       message |-> "Field must be between 6 and 128 characters long."],
      [form |-> "RegisterForm", field |-> "first_name", min |-> 1, max |-> 50,
       message |-> "Field must be between 1 and 50 characters long."],
      [form |-> "RegisterForm", field |-> "last_name", min |-> 1, max |-> 50,
       message |-> "Field must be between 1 and 50 characters long."],
      [form |-> "RegisterForm", field |-> "username", min |-> 3, max |-> 30,
       message |-> "Field must be between 3 and 30 characters long."],
      [form |-> "RegisterForm", field |-> "password", min |-> 6, max |-> 128,
       message |-> "Field must be between 6 and 128 characters long."],
      [form |-> "PostForm", field |-> "content", min |-> 1, max |-> 280,
       message |-> "Post must be between 1 and 280 characters"],
      [form |-> "CommentsForm", field |-> "comment", min |-> 1, max |-> 150,
       message |-> "Field must be between 1 and 150 characters long."] }

\* C9 as stated: a text that passes Required violates its length rule iff
\* its length after removing the surrounding whitespace is outside
\* min..max.
C9_TrimmedLength ==
    \A r \in LengthRules :
        (Validated(r.form) /\ ~data[r.field].isNone /\ NonBlank(data[r.field].s)) =>
            (Has(errors[r.field], r.message)
                <=> Len(Strip(data[r.field].s)) \notin r.min..r.max)

\* C9 amended: a text that passes Required violates its length rule iff
\* its length as submitted, surrounding whitespace counted, is outside
\* min..max.
C9_RawLength ==
    \A r \in LengthRules :
        (Validated(r.form) /\ ~data[r.field].isNone /\ NonBlank(data[r.field].s)) =>
            (Has(errors[r.field], r.message)
                <=> Len(data[r.field].s) \notin r.min..r.max)

C9_Witness ==
    /\ Validated("PostForm")
    /\ data.content = Str(Rep("a", 280) \o <<" ">>)
    /\ errors.content = << "Post must be between 1 and 280 characters" >>

\* The text fields that declare a pattern rule: its characters and message.
PatternRules ==
    { [form |-> "LoginForm", field |-> "username",
       chars |-> Letters \cup Digits \cup {"_"}, message |-> UsernameMessage],
      [form |-> "RegisterForm", field |-> "username",
       chars |-> Letters \cup Digits \cup {"_"}, message |-> UsernameMessage],
      [form |-> "RegisterForm", field |-> "first_name", chars |-> Letters \cup {"-"},
       message |-> "First name must contain only letters and hyphens."],
      [form |-> "RegisterForm", field |-> "last_name", chars |-> Letters \cup {"-"},
       message |-> "Last name must contain only letters and hyphens."] }

\* C10: a text that passes Required satisfies its pattern rule iff it is
\* not empty and every one of its characters is of the rule's characters; a
\* trailing newline or space violates the rule.
C10_AnchoredFullMatch ==
    \A r \in PatternRules :
        (Validated(r.form) /\ ~data[r.field].isNone /\ NonBlank(data[r.field].s)) =>
            (~Has(errors[r.field], r.message)
                <=> /\ Len(data[r.field].s) > 0
                    /\ \A i \in DOMAIN data[r.field].s : data[r.field].s[i] \in r.chars)

====
